---- MODULE Spec2Model ----
(***************************************************************************)
(* CodeMergeBot: the merge-job lifecycle (server/routes.ts), the in-memory *)
(* job and workspace-file store (MemStorage) and the merge orchestrator    *)
(* (AIMergerService), as one state machine.                                *)
(*                                                                         *)
(* Every `await` of the source is a point where another handler or        *)
(* background callback may run, so a handler is one action per stretch of  *)
(* code between two awaits.                                                *)
(***************************************************************************)
EXTENDS Integers, Sequences, FiniteSets, Bags, TLC

(***************************************************************************)
(* Bounds of the model.                                                    *)
(***************************************************************************)
MaxFiles == 2
MaxJobs == 2
MaxMergeRequests == 2

(***************************************************************************)
(* JavaScript values.  A field that may hold values of several types is a  *)
(* tagged record; `undefined` and null of a string-typed field are the     *)
(* strings below.                                                          *)
(***************************************************************************)
Undefined == "<undefined>"
NullString == "<null>"
JsNull == [t |-> "null"]
JsUndefined == [t |-> "undefined"]
JsArray(s) == [t |-> "array", v |-> s]
JsNumber(n) == [t |-> "number", n |-> n]
JsObject(o) == [t |-> "object", o |-> o]
JsBoolean(b) == [t |-> "boolean", b |-> b]
JsString(s) == [t |-> "string", s |-> s]

\* JavaScript truthiness of the string-typed values of the model.
TruthyString(s) == s # Undefined /\ s # NullString /\ s # ""

\* JavaScript truthiness of a tagged value (an array, a non-zero number or a
\* non-empty string is truthy).
Truthy(x) ==
  \/ x.t = "array"
  \/ x.t = "object"
  \/ (x.t = "number" /\ x.n # 0)
  \/ (x.t = "boolean" /\ x.b)
  \/ (x.t = "string" /\ x.s # "")

Last(s) == s[Len(s)]

(***************************************************************************)
(* GitHubFile: the files of the two workspaces.  The type of a file is     *)
(* derived from the extension of its name.                                 *)
(***************************************************************************)
Paths == {"a.ts", "b.md", "c.py"}

UpperCase == "ABCDEFGHIJKLMNOPQRSTUVWXYZ"
LowerCase == "abcdefghijklmnopqrstuvwxyz"

\* String.prototype.toLowerCase, on the letters A to Z.
RECURSIVE toLowerCase(_)
toLowerCase(s) ==
  IF s = "" THEN ""
  ELSE LET c == SubSeq(s, 1, 1)
           upper == {i \in 1..Len(UpperCase) : SubSeq(UpperCase, i, i) = c}
       IN (IF upper = {} THEN c
           ELSE LET i == CHOOSE i \in upper : TRUE IN SubSeq(LowerCase, i, i))
          \o toLowerCase(SubSeq(s, 2, Len(s)))

\* What follows the last `separator` of s, a single character: the last
\* element of s.split(separator), which is s itself when s has no separator.
lastSegment(s, separator) ==
  LET at == {i \in 1..Len(s) : SubSeq(s, i, i) = separator}
  IN IF at = {} THEN s
     ELSE LET last == CHOOSE i \in at : \A j \in at : j <= i
          IN SubSeq(s, last + 1, Len(s))

\* item.name of a repository item: the last segment of its path.
itemName(path) == lastSegment(path, "/")

\* n copies of s, one after the other.
RECURSIVE Repeat(_, _)
Repeat(s, n) == IF n = 0 THEN "" ELSE s \o Repeat(s, n - 1)

PreviewLength == 200

\* A content longer than what a conflict option previews, in two lines.
LongContent == Repeat("x", PreviewLength) \o "\ny"

Contents == {"v1", LongContent}

\* What typeMap[extension] gives for the property names that typeMap, an
\* object literal, inherits: values that are not strings, and truthy.
ObjectFunction == "<function Object>"
ObjectPrototype == "<Object.prototype>"

\* typeMap[extension || ""]: the type of the extension, or undefined.
typeMap(extension) ==
  CASE extension = "js" -> "javascript"
    [] extension = "jsx" -> "javascript"
    [] extension = "ts" -> "typescript"
    [] extension = "tsx" -> "typescript"
    [] extension = "py" -> "python"
    [] extension = "html" -> "html"
    [] extension = "css" -> "css"
    [] extension = "scss" -> "scss"
    [] extension = "json" -> "json"
    [] extension = "md" -> "markdown"
    [] extension = "txt" -> "text"
    [] extension = "yaml" -> "yaml"
    [] extension = "yml" -> "yaml"
    [] extension = "xml" -> "xml"
    [] extension = "sql" -> "sql"
    [] extension = "sh" -> "shell"
    [] extension = "env" -> "env"
    [] extension = "constructor" -> ObjectFunction
    [] extension = "__proto__" -> ObjectPrototype
    [] OTHER -> Undefined

\* GitHubService.getFileType: the name in lower case, what follows its last
\* dot, and the type of that extension, "text" when it has none.
getFileType(filename) ==
  LET extension == lastSegment(toLowerCase(filename), ".")
  IN IF TruthyString(typeMap(extension)) THEN typeMap(extension) ELSE "text"

GitHubFile ==
  {[path |-> p, content |-> c, type |-> getFileType(itemName(p))] : p \in Paths, c \in Contents}

\* The file lists a repository can yield: paths unique within a side.
FileLists ==
  {s \in UNION {[1..n -> GitHubFile] : n \in 0..MaxFiles} :
     \A i, j \in DOMAIN s : s[i].path = s[j].path => i = j}

PathsOf(files) == {files[i].path : i \in DOMAIN files}

(***************************************************************************)
(* The reasoning provider.  One call either fails, or returns a text that  *)
(* JSON.parse rejects, or returns a parsed JSON value.                     *)
(***************************************************************************)
CallFails == [kind |-> "callFails"]
Unparsable == [kind |-> "unparsable"]
JsonNullResponse == [kind |-> "json", value |-> "null"]

Verdict(hasConflict, type) ==
  [kind |-> "json", value |-> "object", hasConflict |-> hasConflict, type |-> type,
   description |-> "desc", recommendation |-> "rec"]

\* The verdicts include a kind outside the three of the Conflict type, a
\* verdict without a kind, and a verdict whose hasConflict is not a boolean
\* (the string "false"): the parsed value is not validated.
AnalysisResponses ==
  {CallFails, Unparsable, JsonNullResponse,
   Verdict(JsBoolean(FALSE), "content"), Verdict(JsBoolean(TRUE), "content"),
   Verdict(JsBoolean(TRUE), "none"), Verdict(JsBoolean(TRUE), Undefined),
   Verdict(JsString("false"), "content")}

Change(type, source) == [type |-> type, lineNumber |-> 1, content |-> "chg", source |-> source]

Fusion(mergedContent, changes) ==
  [kind |-> "json", value |-> "object", mergedContent |-> mergedContent, changes |-> changes]

ProviderChanges == JsArray(<<Change("added", "ai_generated"), Change("modified", "workspace_b")>>)

FusionResponses ==
  {CallFails, Unparsable, JsonNullResponse,
   Fusion("merged", ProviderChanges),
   Fusion("merged", JsUndefined),
   Fusion(Undefined, ProviderChanges),
   Fusion("merged", JsNumber(5))}

NoResponse == [kind |-> "none"]

\* The call, JSON.parse or a property access on the parsed value throws.
Throws(resp) == resp.kind \in {"callFails", "unparsable"} \/ resp = JsonNullResponse

(***************************************************************************)
(* AIMergerService: the pure parts.                                        *)
(***************************************************************************)
\* Array.prototype.find by path: the first file of `files` with that path.
find(files, path) ==
  files[CHOOSE i \in DOMAIN files :
          files[i].path = path /\ \A j \in DOMAIN files : files[j].path = path => i <= j]

\* A classification that takes a path as common only when the two contents are equal.
analyzeFileStructuresByContent(workspaceA, workspaceB) ==
  LET aFiles == PathsOf(workspaceA)
      bFiles == PathsOf(workspaceB)
      bBodies == {workspaceB[i] : i \in DOMAIN workspaceB}
  IN [commonFiles |-> SelectSeq(workspaceA, LAMBDA f : f \in bBodies),
      uniqueToA |-> SelectSeq(workspaceA, LAMBDA f : f.path \notin bFiles),
      uniqueToB |-> SelectSeq(workspaceB, LAMBDA f : f.path \notin aFiles)]

\* analyzeFileStructures: the files of A whose path is in B, the files of A
\* whose path is not, and the files of B whose path is not in A.
analyzeFileStructures(workspaceA, workspaceB) ==
  LET aFiles == PathsOf(workspaceA)
      bFiles == PathsOf(workspaceB)
  IN [commonFiles |-> SelectSeq(workspaceA, LAMBDA f : f.path \in bFiles),
      uniqueToA |-> SelectSeq(workspaceA, LAMBDA f : f.path \notin bFiles),
      uniqueToB |-> SelectSeq(workspaceB, LAMBDA f : f.path \notin aFiles)]

Min(a, b) == IF a <= b THEN a ELSE b

\* A preview that is not cut: the whole string.
substringWhole(s, n) == s

\* String.prototype.substring(0, n).
substring(s, n) == SubSeq(s, 1, Min(n, Len(s)))

\* analyzeFileConflict with a catch branch that reports the failure as a conflict.
analyzeFileConflictFailClosed(fileA, fileB, resp) ==
  IF Throws(resp) \/ Truthy(resp.hasConflict)
    THEN JsObject([filePath |-> fileA.path, type |-> "content",
                   description |-> "desc", recommendation |-> "rec", options |-> << >>])
    ELSE JsNull

\* analyzeFileConflict offering the two versions only.
analyzeFileConflictTwoOptions(fileA, fileB, resp) ==
  IF Throws(resp) THEN JsNull
  ELSE IF Truthy(resp.hasConflict)
    THEN JsObject(
      [filePath |-> fileA.path,
       type |-> resp.type,
       description |-> resp.description,
       recommendation |-> resp.recommendation,
       options |-> <<
         [id |-> "use_a", description |-> "Use Version A",
          preview |-> substring(fileA.content, PreviewLength) \o "..."],
         [id |-> "use_b", description |-> "Use Version B",
          preview |-> substring(fileB.content, PreviewLength) \o "..."] >>])
    ELSE JsNull

\* The value analyzeFileConflict returns once the provider has answered `resp`:
\* a Conflict, or null (also when the call, the parse or the access throws).
analyzeFileConflict(fileA, fileB, resp) ==
  IF Throws(resp) THEN JsNull
  ELSE IF Truthy(resp.hasConflict)
    THEN JsObject(
      [filePath |-> fileA.path,
       type |-> resp.type,
       description |-> resp.description,
       recommendation |-> resp.recommendation,
       options |-> <<
         [id |-> "use_a", description |-> "Use Version A",
          preview |-> substring(fileA.content, PreviewLength) \o "..."],
         [id |-> "use_b", description |-> "Use Version B",
          preview |-> substring(fileB.content, PreviewLength) \o "..."],
         [id |-> "ai_merge", description |-> "AI Recommended Merge",
          preview |-> resp.recommendation] >>])
    ELSE JsNull

\* The catch branch falling back to workspace B's content.
fallbackToWorkspaceB(fileA, fileB) ==
  [path |-> fileA.path, content |-> fileB.content, type |-> fileA.type,
   changes |-> JsArray(<< >>)]

\* The catch branch of mergeFileContents: workspace A's file, no changes.
fallbackToWorkspaceA(fileA, fileB) ==
  [path |-> fileA.path, content |-> fileA.content, type |-> fileA.type,
   changes |-> JsArray(<< >>)]

\* The comparison of the two contents left out: every common pair is sent.
alwaysDiffer(fileA, fileB) == TRUE

\* Whether mergeFileContents calls the provider for the pair.
contentsDiffer(fileA, fileB) == fileA.content # fileB.content

\* The MergedFile mergeFileContents returns; `resp` is what the provider
\* answered, and is not looked at when the two contents are equal.
mergeFileContents(fileA, fileB, resp) ==
  IF ~contentsDiffer(fileA, fileB)
    THEN [path |-> fileA.path, content |-> fileA.content, type |-> fileA.type,
          changes |-> JsArray(<< >>)]
  ELSE IF Throws(resp) THEN fallbackToWorkspaceA(fileA, fileB)
  ELSE [path |-> fileA.path,
        content |-> IF TruthyString(resp.mergedContent) THEN resp.mergedContent
                    ELSE fileA.content,
        type |-> fileA.type,
        changes |-> IF Truthy(resp.changes) THEN resp.changes ELSE JsArray(<< >>)]

\* The unique-file entry with the origin of its change fixed to workspace A.
uniqueFileFromA(file, source) ==
  [path |-> file.path, content |-> file.content, type |-> file.type,
   changes |-> JsArray(<<[type |-> "added", lineNumber |-> 1, content |-> file.content,
                          source |-> "workspace_a"]>>)]

\* The MergedFile of a file present on one side only.
uniqueFile(file, source) ==
  [path |-> file.path, content |-> file.content, type |-> file.type,
   changes |-> JsArray(<<[type |-> "added", lineNumber |-> 1, content |-> file.content,
                          source |-> source]>>)]

RECURSIVE uniqueFiles(_, _)
uniqueFiles(files, source) ==
  IF files = << >> THEN << >>
  ELSE <<uniqueFile(Head(files), source)>> \o uniqueFiles(Tail(files), source)

\* The added changes counted by the lines of their content.
RECURSIVE addedCountOfLines(_)
addedCountOfLines(changes) ==
  IF changes = << >> THEN 0
  ELSE (IF Head(changes).type = "added"
          THEN 1 + Cardinality({i \in 1..Len(Head(changes).content) :
                                  SubSeq(Head(changes).content, i, i) = "\n"})
          ELSE 0)
       + addedCountOfLines(Tail(changes))

\* file.changes.filter(c => c.type === "added").length
RECURSIVE addedCount(_)
addedCount(changes) ==
  IF changes = << >> THEN 0
  ELSE (IF Head(changes).type = "added" THEN 1 ELSE 0) + addedCount(Tail(changes))

\* mergedFiles.reduce((total, file) => total + <added changes of file>, 0)
RECURSIVE linesAdded(_)
linesAdded(mergedFiles) ==
  IF mergedFiles = << >> THEN 0
  ELSE addedCount(Head(mergedFiles).changes.v) + linesAdded(Tail(mergedFiles))

\* generateSummary throws a TypeError when `changes` of a merged file has no
\* filter method, that is when it is not an array.
generateSummaryThrows(mergedFiles) ==
  \E i \in DOMAIN mergedFiles : mergedFiles[i].changes.t # "array"

TypeErrorMessage == "file.changes.filter is not a function"

recommendations ==
  <<"Review merged files for proper functionality",
    "Test the integrated codebase thoroughly",
    "Update documentation to reflect changes",
    "Consider refactoring common patterns">>

\* generateSummary counting the files of both sides, a shared path twice.
generateSummaryCountingBothSides(workspaceA, workspaceB, mergedFiles, conflicts) ==
  [totalFiles |-> Len(workspaceA) + Len(workspaceB),
   mergedFiles |-> Len(mergedFiles),
   conflictsResolved |-> Len(conflicts),
   linesAdded |-> linesAdded(mergedFiles),
   recommendations |-> recommendations]

\* generateSummary counting as merged only the files that carry changes.
generateSummaryCountingChanged(workspaceA, workspaceB, mergedFiles, conflicts) ==
  [totalFiles |-> Cardinality(PathsOf(workspaceA) \cup PathsOf(workspaceB)),
   mergedFiles |-> Cardinality({i \in DOMAIN mergedFiles : mergedFiles[i].changes.v # << >>}),
   conflictsResolved |-> Len(conflicts),
   linesAdded |-> linesAdded(mergedFiles),
   recommendations |-> recommendations]

generateSummary(workspaceA, workspaceB, mergedFiles, conflicts) ==
  [totalFiles |-> Cardinality(PathsOf(workspaceA) \cup PathsOf(workspaceB)),
   mergedFiles |-> Len(mergedFiles),
   conflictsResolved |-> Len(conflicts),
   linesAdded |-> linesAdded(mergedFiles),
   recommendations |-> recommendations]

\* mergeWorkspaces wraps whatever is thrown inside it.
wrapError(message) == "AI merge failed: " \o message

(***************************************************************************)
(* AIMergerService: the loops.  The provider's answers are an input: a     *)
(* function from the path of a file to the response to the one call made   *)
(* for that file.  Each loop awaits one call after the other, so the calls *)
(* are made, and their results appended, in the order of commonFiles.      *)
(***************************************************************************)
\* The paths detectConflicts and performAIMerge call the provider for.
differingPaths(workspaceA, workspaceB) ==
  {f.path : f \in {workspaceA[i] : i \in {j \in DOMAIN workspaceA :
      workspaceA[j].path \in PathsOf(workspaceB)
      /\ contentsDiffer(workspaceA[j], find(workspaceB, workspaceA[j].path))}}}

AnalysisAnswers(workspaceA, workspaceB) ==
  [differingPaths(workspaceA, workspaceB) -> AnalysisResponses]

FusionAnswers(workspaceA, workspaceB) ==
  [differingPaths(workspaceA, workspaceB) -> FusionResponses]

\* The detectConflicts loop calling the provider a second time when the first
\* call fails.
RECURSIVE detectConflictsLoopRetrying(_, _, _, _)
detectConflictsLoopRetrying(commonFiles, workspaceB, answers, acc) ==
  IF commonFiles = << >> THEN acc
  ELSE
    LET fileA == Head(commonFiles)
        fileB == find(workspaceB, fileA.path)
    IN IF contentsDiffer(fileA, fileB)
         THEN LET conflict == analyzeFileConflict(fileA, fileB, answers[fileA.path])
              IN detectConflictsLoopRetrying(Tail(commonFiles), workspaceB, answers,
                   [conflicts |-> IF conflict.t = "object"
                                    THEN Append(acc.conflicts, conflict.o)
                                    ELSE acc.conflicts,
                    calls |-> IF Throws(answers[fileA.path])
                                THEN acc.calls \o <<fileA.path, fileA.path>>
                                ELSE Append(acc.calls, fileA.path)])
         ELSE detectConflictsLoopRetrying(Tail(commonFiles), workspaceB, answers, acc)

\* for (const fileA of commonFiles) { ... } of detectConflicts; acc is
\* [conflicts, calls]: the conflicts pushed and the provider calls made so far.
RECURSIVE detectConflictsLoop(_, _, _, _)
detectConflictsLoop(commonFiles, workspaceB, answers, acc) ==
  IF commonFiles = << >> THEN acc
  ELSE
    LET fileA == Head(commonFiles)
        fileB == find(workspaceB, fileA.path)
    IN IF contentsDiffer(fileA, fileB)
         THEN LET conflict == analyzeFileConflict(fileA, fileB, answers[fileA.path])
              IN detectConflictsLoop(Tail(commonFiles), workspaceB, answers,
                   [conflicts |-> IF conflict.t = "object"
                                    THEN Append(acc.conflicts, conflict.o)
                                    ELSE acc.conflicts,
                    calls |-> Append(acc.calls, fileA.path)])
         ELSE detectConflictsLoop(Tail(commonFiles), workspaceB, answers, acc)

detectConflicts(workspaceA, workspaceB, answers) ==
  detectConflictsLoop(analyzeFileStructures(workspaceA, workspaceB).commonFiles,
                      workspaceB, answers, [conflicts |-> << >>, calls |-> << >>])

\* The performAIMerge loop putting each merged common file in front of the list.
RECURSIVE performAIMergeLoopPrepending(_, _, _, _)
performAIMergeLoopPrepending(commonFiles, workspaceB, answers, acc) ==
  IF commonFiles = << >> THEN acc
  ELSE
    LET fileA == Head(commonFiles)
        fileB == find(workspaceB, fileA.path)
        called == contentsDiffer(fileA, fileB)
        resp == IF called THEN answers[fileA.path] ELSE NoResponse
    IN performAIMergeLoopPrepending(Tail(commonFiles), workspaceB, answers,
         [mergedFiles |-> <<mergeFileContents(fileA, fileB, resp)>> \o acc.mergedFiles,
          calls |-> IF called THEN Append(acc.calls, fileA.path) ELSE acc.calls])

\* for (const fileA of commonFiles) { ... } of performAIMerge; acc is
\* [mergedFiles, calls].
RECURSIVE performAIMergeLoop(_, _, _, _)
performAIMergeLoop(commonFiles, workspaceB, answers, acc) ==
  IF commonFiles = << >> THEN acc
  ELSE
    LET fileA == Head(commonFiles)
        fileB == find(workspaceB, fileA.path)
        called == contentsDiffer(fileA, fileB)
        resp == IF called THEN answers[fileA.path] ELSE NoResponse
    IN performAIMergeLoop(Tail(commonFiles), workspaceB, answers,
         [mergedFiles |-> Append(acc.mergedFiles, mergeFileContents(fileA, fileB, resp)),
          calls |-> IF called THEN Append(acc.calls, fileA.path) ELSE acc.calls])

\* performAIMerge adding every file of workspace B as a unique file.
performAIMergeAllOfB(workspaceA, workspaceB, answers) ==
  LET s == analyzeFileStructures(workspaceA, workspaceB)
  IN performAIMergeLoop(s.commonFiles, workspaceB, answers,
       [mergedFiles |-> uniqueFiles(s.uniqueToA, "workspace_a")
                        \o uniqueFiles(workspaceB, "workspace_b"),
        calls |-> << >>])

performAIMerge(workspaceA, workspaceB, answers) ==
  LET s == analyzeFileStructures(workspaceA, workspaceB)
  IN performAIMergeLoop(s.commonFiles, workspaceB, answers,
       [mergedFiles |-> uniqueFiles(s.uniqueToA, "workspace_a")
                        \o uniqueFiles(s.uniqueToB, "workspace_b"),
        calls |-> << >>])

\* What mergeWorkspaces ends with, given the two results: the MergeResult, or
\* the wrapped error.
mergeOutcome(workspaceA, workspaceB, mergedFiles, conflicts) ==
  IF generateSummaryThrows(mergedFiles)
    THEN [t |-> "throw", message |-> wrapError(TypeErrorMessage)]
    ELSE [t |-> "return",
          mergedFiles |-> mergedFiles,
          conflicts |-> conflicts,
          summary |-> generateSummary(workspaceA, workspaceB, mergedFiles, conflicts)]

mergeWorkspaces(workspaceAFiles, workspaceBFiles, analysis, fusion) ==
  mergeOutcome(workspaceAFiles, workspaceBFiles,
               performAIMerge(workspaceAFiles, workspaceBFiles, fusion).mergedFiles,
               detectConflicts(workspaceAFiles, workspaceBFiles, analysis).conflicts)

\* The provider's answers to the merges of the job lifecycle: the analysis
\* fails or reports a conflict, the fusion fails, succeeds, or returns changes
\* that are not an array.  (SpecMerge below runs mergeWorkspaces over all of
\* AnalysisResponses and FusionResponses.)
TaskAnalysisResponses == {CallFails, Verdict(JsBoolean(TRUE), "content")}
TaskFusionResponses == {CallFails, Fusion("merged", ProviderChanges), Fusion("merged", JsNumber(5))}

\* The ways mergeWorkspaces can end on the two lists, over those answers.
mergeOutcomes(workspaceAFiles, workspaceBFiles) ==
  {mergeWorkspaces(workspaceAFiles, workspaceBFiles, analysis, fusion) :
     analysis \in [differingPaths(workspaceAFiles, workspaceBFiles) -> TaskAnalysisResponses],
     fusion \in [differingPaths(workspaceAFiles, workspaceBFiles) -> TaskFusionResponses]}

(***************************************************************************)
(* GitHubService: source identifiers and the repositories behind them.     *)
(***************************************************************************)
\* String.prototype.includes.
includes(s, sub) ==
  \E i \in 1..(Len(s) - Len(sub) + 1) : SubSeq(s, i, i + Len(sub) - 1) = sub

NoSlash(s) == ~includes(s, "/")

\* The match of /github\.com\/([^\/]+)\/([^\/]+)(?:\/tree\/([^\/]+))?/ in url:
\* "github.com/", a non-empty owner without "/", "/", a non-empty repo.
urlMatches(url) ==
  \E i \in 1..Len(url), j \in 1..Len(url) :
    /\ i + 11 < j
    /\ SubSeq(url, i, i + 10) = "github.com/"
    /\ NoSlash(SubSeq(url, i + 11, j - 1))
    /\ SubSeq(url, j, j) = "/"
    /\ j < Len(url)
    /\ SubSeq(url, j + 1, j + 1) # "/"

\* parseGitHubUrl throws "Invalid GitHub URL format" when the url does not match.
parseGitHubUrlThrows(url) == ~urlMatches(url)

InvalidUrlMessage == "Invalid GitHub URL format"
FetchFailedMessage == "Failed to fetch repository files: Not Found"

HelloWorldUrl == "https://github.com/octocat/Hello-World"
SpoonKnifeUrl == "https://github.com/octocat/Spoon-Knife"
BareHelloWorld == "octocat/Hello-World"
PrivateUrl == "https://github.com/acme/app"
BareName == "acme/app"

isTestRepo(url) ==
  includes(url, "octocat/Hello-World") \/ includes(url, "octocat/Spoon-Knife")

\* The files of the repositories (what getRepositoryFiles returns when it
\* does not throw).  The file of the third repository is in a sub-directory
\* and empty.
RepositoryFiles(url) ==
  IF includes(url, "octocat/Hello-World")
    THEN <<[path |-> "b.md", content |-> "v1", type |-> getFileType(itemName("b.md"))]>>
  ELSE IF includes(url, "octocat/Spoon-Knife")
    THEN <<[path |-> "b.md", content |-> "v2", type |-> getFileType(itemName("b.md"))]>>
  ELSE <<[path |-> "src/c.py", content |-> "", type |-> getFileType(itemName("src/c.py"))]>>

(***************************************************************************)
(* State.                                                                  *)
(***************************************************************************)
VARIABLES
  mergeJobs,       \* MemStorage.mergeJobs: the job records, by id (1, 2, ...)
  workspaceFiles,  \* MemStorage.workspaceFiles: a bag of records (the keys are random)
  creating,        \* the POST /api/merge-jobs handlers awaiting createMergeJob
  creates,         \* the responses to the POST /api/merge-jobs requests
  previews,        \* the background preview loads, one per created job
  requests,        \* the POST /api/merge-jobs/:id/merge requests
  tasks,           \* the background merges, one per accepted merge request
  run              \* one call of mergeWorkspaces on its own

vars == <<mergeJobs, workspaceFiles, creating, creates, previews, requests, tasks, run>>

\* completedAt: null, or the Date of the update that set it.
NullDate == "<null>"
SomeDate == "<Date>"

\* MemStorage.getMergeJob: the record, or undefined.
NoJob == [id |-> 0]
getMergeJob(id) == IF id \in DOMAIN mergeJobs THEN mergeJobs[id] ELSE NoJob

\* MemStorage.createMergeJob: the record made of a validated request body.
\* The body's status and errorMessage are spread into it as they are.
createMergeJob(insertJob, id) ==
  [id |-> id,
   workspaceAUrl |-> insertJob.workspaceAUrl,
   workspaceBUrl |-> insertJob.workspaceBUrl,
   status |-> insertJob.status,
   errorMessage |-> insertJob.errorMessage,
   completedAt |-> NullDate,
   mergedFiles |-> JsNull,
   conflicts |-> JsNull,
   summary |-> JsNull]

\* MemStorage.updateMergeJob, for the three updates the routes make.
setCompletedAt(updated) ==
  IF updated.status = "completed" \/ updated.status = "failed"
    THEN [updated EXCEPT !.completedAt = SomeDate] ELSE updated

\* An update of the status that is not stored: the record stays as it was.
updateStatusNotStored(existing, status) == existing

updateStatus(existing, status) ==
  setCompletedAt([existing EXCEPT !.status = status])

updateCompleted(existing, result) ==
  setCompletedAt([existing EXCEPT !.status = "completed",
                                  !.mergedFiles = JsArray(result.mergedFiles),
                                  !.conflicts = JsArray(result.conflicts),
                                  !.summary = JsObject(result.summary)])

updateFailed(existing, message) ==
  setCompletedAt([existing EXCEPT !.status = "failed", !.errorMessage = message])

\* x || null, of a string-typed value.
orNull(x) == IF TruthyString(x) THEN x ELSE NullString

\* MemStorage.createWorkspaceFile: the record stored, without its random id.
\* A falsy content or fileType is stored as null, a falsy isConflict as false.
createWorkspaceFile(insertFile) ==
  [mergeJobId |-> insertFile.mergeJobId,
   workspace |-> insertFile.workspace,
   filePath |-> insertFile.filePath,
   content |-> orNull(insertFile.content),
   fileType |-> orNull(insertFile.fileType),
   isConflict |-> insertFile.isConflict]

\* this.workspaceFiles.set(randomUUID(), file)
storeFile(store, file) == store (+) SetToBag({file})

\* MemStorage.getWorkspaceFilesByJobId: the job's records, each as many times
\* as it is stored.
getWorkspaceFilesByJobId(jobId) ==
  [f \in {g \in BagToSet(workspaceFiles) : g.mergeJobId = jobId}
     |-> workspaceFiles[f]]

\* A delete that empties the store, whatever the job.
deleteEveryWorkspaceFile(jobId) == EmptyBag

\* MemStorage.deleteWorkspaceFilesByJobId: what is left of the store.
deleteWorkspaceFilesByJobId(jobId) ==
  [f \in {g \in BagToSet(workspaceFiles) : g.mergeJobId # jobId}
     |-> workspaceFiles[f]]

(***************************************************************************)
(* POST /api/merge-jobs: validation, creation, and the preview load it     *)
(* schedules.  Nothing is written before createMergeJob, so the handler is *)
(* one action up to `await storage.createMergeJob`, and one after it.      *)
(***************************************************************************)
Body(urlA, urlB, provider, status, errorMessage, tokenA, tokenB) ==
  [workspaceAUrl |-> urlA, workspaceBUrl |-> urlB, aiProvider |-> provider,
   status |-> status, errorMessage |-> errorMessage,
   githubTokenA |-> tokenA, githubTokenB |-> tokenB]

\* The request the client sends: no status, no tokens (merge-workspace.tsx).
ClientBody(urlA, urlB) == Body(urlA, urlB, "openai", Undefined, Undefined, FALSE, FALSE)

CreateBodies ==
  {ClientBody(HelloWorldUrl, SpoonKnifeUrl),
   Body(HelloWorldUrl, SpoonKnifeUrl, "openai", "pending", Undefined, FALSE, FALSE),
   Body(HelloWorldUrl, HelloWorldUrl, "anthropic", "completed", "boom", FALSE, FALSE),
   Body(HelloWorldUrl, SpoonKnifeUrl, "openai", "processing", Undefined, FALSE, FALSE),
   Body(BareHelloWorld, SpoonKnifeUrl, "openai", "pending", Undefined, FALSE, FALSE),
   Body(PrivateUrl, SpoonKnifeUrl, "openai", Undefined, Undefined, TRUE, FALSE),
   Body(BareName, SpoonKnifeUrl, "openai", "pending", Undefined, TRUE, FALSE),
   Body(SpoonKnifeUrl, PrivateUrl, "openai", "pending", Undefined, FALSE, FALSE),
   Body(HelloWorldUrl, SpoonKnifeUrl, Undefined, "pending", Undefined, FALSE, FALSE)}

\* insertMergeJobSchema.parse throws when a required field is missing.
schemaRejects(body) ==
  body.workspaceAUrl = Undefined \/ body.workspaceBUrl = Undefined
  \/ body.aiProvider = Undefined

\* GitHubService.validateRepository: false when the url does not parse or the
\* repository cannot be read (`accessible` is GitHub's answer).
validateRepository(url, accessible) == ~parseGitHubUrlThrows(url) /\ accessible

\* The status code of the response to a creation request.
createStatus(body, accessibleA, accessibleB) ==
  IF schemaRejects(body) THEN 400
  ELSE LET isTestRepoA == isTestRepo(body.workspaceAUrl)
           isTestRepoB == isTestRepo(body.workspaceBUrl)
       IN IF isTestRepoA /\ isTestRepoB THEN 200
          ELSE IF ~body.githubTokenA /\ ~isTestRepoA THEN 400
          ELSE IF ~body.githubTokenB /\ ~isTestRepoB THEN 400
          ELSE IF ~isTestRepoA /\ ~validateRepository(body.workspaceAUrl, accessibleA) THEN 400
          ELSE IF ~isTestRepoB /\ ~validateRepository(body.workspaceBUrl, accessibleB) THEN 400
          ELSE 200

\* The handler up to `await storage.createMergeJob`: the request is answered
\* 400, or the job is stored and the handler waits with the record.
CreateJob(body, accessibleA, accessibleB) ==
  /\ Len(creates) + Len(creating) < MaxJobs
  /\ LET code == createStatus(body, accessibleA, accessibleB)
         id == Len(mergeJobs) + 1
     IN IF code = 200
          THEN /\ mergeJobs' = Append(mergeJobs, createMergeJob(body, id))
               /\ creating' = Append(creating, createMergeJob(body, id))
               /\ UNCHANGED creates
          ELSE /\ creates' = Append(creates, code)
               /\ UNCHANGED <<mergeJobs, creating>>
  /\ UNCHANGED <<workspaceFiles, previews, requests, tasks, run>>

\* A sequence without its element at index i.
without(s, i) == SubSeq(s, 1, i - 1) \o SubSeq(s, i + 1, Len(s))

\* After the await: setImmediate(the preview load), and res.json(job).
CreateRespond(c) ==
  /\ previews' = Append(previews, [job |-> creating[c], pc |-> "fetch", pending |-> << >>])
  /\ creates' = Append(creates, 200)
  /\ creating' = without(creating, c)
  /\ UNCHANGED <<mergeJobs, workspaceFiles, requests, tasks, run>>

\* The workspace-file records a background load stores, in the order it
\* stores them: workspace A's files, then workspace B's.
\* The argument of createWorkspaceFile for a fetched file.
insertWorkspaceFile(jobId, workspace, file) ==
  [mergeJobId |-> jobId, workspace |-> workspace, filePath |-> file.path,
   content |-> file.content, fileType |-> file.type, isConflict |-> FALSE]

RECURSIVE fileRecords(_, _, _)
fileRecords(jobId, workspace, files) ==
  IF files = << >> THEN << >>
  ELSE <<createWorkspaceFile(insertWorkspaceFile(jobId, workspace, Head(files)))>>
       \o fileRecords(jobId, workspace, Tail(files))

recordsToStore(job, workspaceAFiles, workspaceBFiles) ==
  fileRecords(job.id, "a", workspaceAFiles) \o fileRecords(job.id, "b", workspaceBFiles)

\* parseGitHubUrl of both urls, then getRepositoryFiles of both: the message
\* of the error thrown, or "" when both file lists arrive.
fetchError(job, fetched) ==
  IF parseGitHubUrlThrows(job.workspaceAUrl) \/ parseGitHubUrlThrows(job.workspaceBUrl)
    THEN InvalidUrlMessage
  ELSE IF ~fetched THEN FetchFailedMessage
  ELSE ""

\* The position of a background load that has `pending` left to store: after
\* its last createWorkspaceFile nothing it does changes the state.
afterStore(pending) == IF pending = << >> THEN "done" ELSE "store"

\* The preview load up to its first createWorkspaceFile: an error is logged
\* and ends it.
PreviewFetch(p, fetched) ==
  /\ previews[p].pc = "fetch"
  /\ LET job == previews[p].job
         records == recordsToStore(job, RepositoryFiles(job.workspaceAUrl),
                                   RepositoryFiles(job.workspaceBUrl))
     IN IF fetchError(job, fetched) # ""
          THEN /\ previews' = [previews EXCEPT ![p].pc = "failed"]
               /\ UNCHANGED workspaceFiles
        ELSE IF records = << >>
          THEN /\ previews' = [previews EXCEPT ![p].pc = "done"]
               /\ UNCHANGED workspaceFiles
          ELSE /\ workspaceFiles' = storeFile(workspaceFiles, Head(records))
               /\ previews' = [previews EXCEPT ![p].pc = afterStore(Tail(records)),
                                               ![p].pending = Tail(records)]
  /\ UNCHANGED <<mergeJobs, creating, creates, requests, tasks, run>>

\* The preview load after an await of createWorkspaceFile: the next file.
PreviewStore(p) ==
  /\ previews[p].pc = "store"
  /\ workspaceFiles' = storeFile(workspaceFiles, Head(previews[p].pending))
  /\ previews' = [previews EXCEPT ![p].pc = afterStore(Tail(previews[p].pending)),
                                  ![p].pending = Tail(@)]
  /\ UNCHANGED <<mergeJobs, creating, creates, requests, tasks, run>>

(***************************************************************************)
(* POST /api/merge-jobs/:id/merge.  The handler awaits getMergeJob, then   *)
(* checks the status of the record it was given and awaits updateMergeJob, *)
(* then schedules the background merge and answers.                        *)
(***************************************************************************)
\* The handler up to `await storage.getMergeJob(id)`: the record is read.
MergeRequest(id) ==
  /\ Len(requests) < MaxMergeRequests
  /\ requests' = Append(requests, [id |-> id, pc |-> "guard", job |-> getMergeJob(id), code |-> 0])
  /\ UNCHANGED <<mergeJobs, workspaceFiles, creating, creates, previews, tasks, run>>

\* The handler has answered: what remains of the request is its response.
answered(request, code) == [id |-> request.id, pc |-> "done", job |-> NoJob, code |-> code]

\* The guard turning away completed jobs only.
guardPassesUnlessCompleted(job) == job # NoJob /\ job.status # "completed"

\* Whether the handler goes on to updateMergeJob with the record it read.
guardPasses(job) == job # NoJob /\ job.status = "pending"

\* From the first await to the second: 404, 400, or the status is written.
MergeGuard(r) ==
  /\ requests[r].pc = "guard"
  /\ LET job == requests[r].job
     IN IF job = NoJob
          THEN /\ requests' = [requests EXCEPT ![r] = answered(@, 404)]
               /\ UNCHANGED mergeJobs
        ELSE IF ~guardPasses(job)
          THEN /\ requests' = [requests EXCEPT ![r] = answered(@, 400)]
               /\ UNCHANGED mergeJobs
        ELSE /\ mergeJobs' = [mergeJobs EXCEPT
                                ![job.id] = updateStatus(@, "processing")]
             /\ requests' = [requests EXCEPT ![r].pc = "spawn"]
  /\ UNCHANGED <<workspaceFiles, creating, creates, previews, tasks, run>>

\* After the second await: setImmediate(the background merge), and the answer.
MergeSpawn(r) ==
  /\ requests[r].pc = "spawn"
  /\ tasks' = Append(tasks, [job |-> requests[r].job, pc |-> "fetch", pending |-> << >>,
                             workspaceAFiles |-> << >>, workspaceBFiles |-> << >>])
  /\ requests' = [requests EXCEPT ![r] = answered(@, 200)]
  /\ UNCHANGED <<mergeJobs, workspaceFiles, creating, creates, previews, run>>

(***************************************************************************)
(* The background merge (routes.ts, the setImmediate callback).            *)
(***************************************************************************)
\* The callback has ended: what remains of it is the job it ran for.
ended(task) == [job |-> task.job, pc |-> "done", pending |-> << >>,
                workspaceAFiles |-> << >>, workspaceBFiles |-> << >>]

\* Up to `await storage.deleteWorkspaceFilesByJobId`: both file lists are
\* fetched and the job's stored files deleted; an error thrown on the way is
\* caught and recorded on the job.
TaskFetch(t, fetched) ==
  /\ tasks[t].pc = "fetch"
  /\ LET job == tasks[t].job
         error == fetchError(job, fetched)
         workspaceAFiles == RepositoryFiles(job.workspaceAUrl)
         workspaceBFiles == RepositoryFiles(job.workspaceBUrl)
     IN IF error # ""
          THEN /\ mergeJobs' = [mergeJobs EXCEPT ![job.id] = updateFailed(@, error)]
               /\ tasks' = [tasks EXCEPT ![t] = ended(@)]
               /\ UNCHANGED workspaceFiles
          ELSE /\ workspaceFiles' = deleteWorkspaceFilesByJobId(job.id)
               /\ tasks' = [tasks EXCEPT ![t].pc = "store",
                                         ![t].workspaceAFiles = workspaceAFiles,
                                         ![t].workspaceBFiles = workspaceBFiles,
                                         ![t].pending = recordsToStore(job, workspaceAFiles,
                                                                       workspaceBFiles)]
               /\ UNCHANGED mergeJobs
  /\ UNCHANGED <<creating, creates, previews, requests, run>>

\* After an await of the store: the next createWorkspaceFile.
TaskStore(t) ==
  /\ tasks[t].pc = "store"
  /\ tasks[t].pending # << >>
  /\ workspaceFiles' = storeFile(workspaceFiles, Head(tasks[t].pending))
  /\ tasks' = [tasks EXCEPT ![t].pending = Tail(@)]
  /\ UNCHANGED <<mergeJobs, creating, creates, previews, requests, run>>

\* After the last await of the store: mergeWorkspaces, whose provider calls
\* touch nothing but the merge's own data, and the update of the job with
\* what it returned or threw.
TaskMerge(t, outcome) ==
  /\ tasks[t].pc = "store"
  /\ tasks[t].pending = << >>
  /\ LET job == tasks[t].job
     IN mergeJobs' = [mergeJobs EXCEPT ![job.id] =
                        IF outcome.t = "return"
                          THEN updateCompleted(@, outcome)
                          ELSE updateFailed(@, outcome.message)]
  /\ tasks' = [tasks EXCEPT ![t] = ended(@)]
  /\ UNCHANGED <<workspaceFiles, creating, creates, previews, requests, run>>

(***************************************************************************)
(* AIMergerService.mergeWorkspaces on its own: the two file lists are any  *)
(* two lists with paths unique within each, and the provider answers each  *)
(* call in any way.                                                        *)
(***************************************************************************)
\* const conflicts = await this.detectConflicts(workspaceAFiles, workspaceBFiles)
DetectConflicts(answers) ==
  /\ run.pc = "detect"
  /\ LET d == detectConflicts(run.workspaceAFiles, run.workspaceBFiles, answers)
     IN run' = [pc |-> "merge",
                workspaceAFiles |-> run.workspaceAFiles,
                workspaceBFiles |-> run.workspaceBFiles,
                analysis |-> answers,
                conflicts |-> d.conflicts,
                analyzerCalls |-> d.calls]
  /\ UNCHANGED <<mergeJobs, workspaceFiles, creating, creates, previews, requests, tasks>>

\* const mergedFiles = await this.performAIMerge(workspaceAFiles, workspaceBFiles, conflicts)
PerformAIMerge(answers) ==
  /\ run.pc = "merge"
  /\ LET m == performAIMerge(run.workspaceAFiles, run.workspaceBFiles, answers)
     IN run' = [pc |-> "summary",
                workspaceAFiles |-> run.workspaceAFiles,
                workspaceBFiles |-> run.workspaceBFiles,
                analysis |-> run.analysis,
                conflicts |-> run.conflicts,
                analyzerCalls |-> run.analyzerCalls,
                fusion |-> answers,
                mergedFiles |-> m.mergedFiles,
                fuserCalls |-> m.calls]
  /\ UNCHANGED <<mergeJobs, workspaceFiles, creating, creates, previews, requests, tasks>>

\* generateSummary and the return, or the catch and the wrapped throw.
GenerateSummary ==
  /\ run.pc = "summary"
  /\ LET outcome == mergeOutcome(run.workspaceAFiles, run.workspaceBFiles,
                                 run.mergedFiles, run.conflicts)
     IN run' = [pc |-> IF outcome.t = "return" THEN "returned" ELSE "thrown",
                workspaceAFiles |-> run.workspaceAFiles,
                workspaceBFiles |-> run.workspaceBFiles,
                analysis |-> run.analysis,
                conflicts |-> run.conflicts,
                analyzerCalls |-> run.analyzerCalls,
                fusion |-> run.fusion,
                mergedFiles |-> run.mergedFiles,
                fuserCalls |-> run.fuserCalls,
                outcome |-> outcome]
  /\ UNCHANGED <<mergeJobs, workspaceFiles, creating, creates, previews, requests, tasks>>

(***************************************************************************)
(* Specifications.                                                         *)
(***************************************************************************)
Idle == [pc |-> "idle"]

Init ==
  /\ mergeJobs = << >>
  /\ workspaceFiles = EmptyBag
  /\ creating = << >>
  /\ creates = << >>
  /\ previews = << >>
  /\ requests = << >>
  /\ tasks = << >>
  /\ run = Idle

Next ==
  \/ \E body \in CreateBodies, accessibleA, accessibleB \in BOOLEAN :
       CreateJob(body, accessibleA, accessibleB)
  \/ \E c \in DOMAIN creating : CreateRespond(c)
  \/ \E p \in DOMAIN previews, fetched \in BOOLEAN : PreviewFetch(p, fetched)
  \/ \E p \in DOMAIN previews : PreviewStore(p)
  \/ \E id \in 1..MaxJobs : MergeRequest(id)
  \/ \E r \in DOMAIN requests : MergeGuard(r)
  \/ \E r \in DOMAIN requests : MergeSpawn(r)
  \/ \E t \in DOMAIN tasks, fetched \in BOOLEAN : TaskFetch(t, fetched)
  \/ \E t \in DOMAIN tasks : TaskStore(t)
  \/ \E t \in DOMAIN tasks :
       \E outcome \in mergeOutcomes(tasks[t].workspaceAFiles, tasks[t].workspaceBFiles) :
         TaskMerge(t, outcome)

Spec == Init /\ [][Next]_vars

InitMerge ==
  /\ mergeJobs = << >>
  /\ workspaceFiles = EmptyBag
  /\ creating = << >>
  /\ creates = << >>
  /\ previews = << >>
  /\ requests = << >>
  /\ tasks = << >>
  /\ run \in {[pc |-> "detect", workspaceAFiles |-> a, workspaceBFiles |-> b] :
                a \in FileLists, b \in FileLists}

NextMerge ==
  \/ \E answers \in AnalysisAnswers(run.workspaceAFiles, run.workspaceBFiles) :
       DetectConflicts(answers)
  \/ \E answers \in FusionAnswers(run.workspaceAFiles, run.workspaceBFiles) :
       PerformAIMerge(answers)
  \/ GenerateSummary

SpecMerge == InitMerge /\ [][NextMerge]_vars

(***************************************************************************)
(* Properties.                                                             *)
(***************************************************************************)
Range(f) == {f[i] : i \in DOMAIN f}

Terminal(status) == status = "completed" \/ status = "failed"

\* The tasks (background merges) started for a job.
tasksOf(id) == {t \in DOMAIN tasks : tasks[t].job.id = id}

\* C1: a merge request that read a job whose status is not pending is answered
\* 400 by the step that checks it, and that step leaves the job records, the
\* stored workspace files and the background merges as they were.
C1_NonPendingMergeRejected ==
  [][\A r \in DOMAIN requests :
       (/\ requests[r].pc = "guard"
        /\ requests[r].job # NoJob
        /\ requests[r].job.status # "pending"
        /\ requests'[r].pc # "guard")
       => /\ requests'[r].pc = "done"
          /\ requests'[r].code = 400
          /\ mergeJobs' = mergeJobs
          /\ workspaceFiles' = workspaceFiles
          /\ tasks' = tasks]_vars

\* C1 witness: a job completed by its merge has had a merge request rejected.
C1_Witness ==
  \E r \in DOMAIN requests :
    /\ requests[r].code = 400
    /\ requests[r].id \in DOMAIN mergeJobs
    /\ mergeJobs[requests[r].id].status = "completed"
    /\ mergeJobs[requests[r].id].mergedFiles.t = "array"

\* C2: at most one background merge is ever started for a job.
C2_AtMostOneOrchestration ==
  \A id \in DOMAIN mergeJobs : Cardinality(tasksOf(id)) <= 1

\* C3: a job has status pending when the creation request has made it.
C3_CreatedPending ==
  [][\A id \in DOMAIN mergeJobs' :
       id \notin DOMAIN mergeJobs => mergeJobs'[id].status = "pending"]_vars

\* C4: once a job is completed or failed, its record never changes again.
C4_TerminalIsFinal ==
  [][\A id \in DOMAIN mergeJobs :
       Terminal(mergeJobs[id].status) => mergeJobs'[id] = mergeJobs[id]]_vars

\* C5: the status of a job changes only from pending to processing, from
\* processing to completed and from processing to failed.
C5_StatusTransitions ==
  [][\A id \in DOMAIN mergeJobs :
       mergeJobs'[id].status # mergeJobs[id].status
       => <<mergeJobs[id].status, mergeJobs'[id].status>> \in
            {<<"pending", "processing">>, <<"processing", "completed">>,
             <<"processing", "failed">>}]_vars

\* C6: a job holds its merge result (mergedFiles, conflicts and summary, all
\* three) exactly when it is completed and an errorMessage exactly when it is
\* failed, so never both and neither while it is pending or processing.
hasResult(job) ==
  job.mergedFiles.t # "null" /\ job.conflicts.t # "null" /\ job.summary.t # "null"

anyResult(job) ==
  job.mergedFiles.t # "null" \/ job.conflicts.t # "null" \/ job.summary.t # "null"

hasError(job) == TruthyString(job.errorMessage)

C6_ResultOrError ==
  \A id \in DOMAIN mergeJobs :
    LET job == mergeJobs[id]
    IN /\ anyResult(job) => hasResult(job) /\ job.status = "completed"
       /\ hasError(job) => job.status = "failed"
       /\ job.status = "completed" => hasResult(job)
       /\ job.status = "failed" => hasError(job)

\* C7: whatever the provider answers, mergeWorkspaces returns a result: it
\* never throws.
C7_ProviderNeverAbortsMerge == run.pc # "thrown"

AfterDetect == run.pc \in {"merge", "summary", "returned", "thrown"}
AfterMerge == run.pc \in {"summary", "returned", "thrown"}

fileOf(files, path) == CHOOSE f \in Range(files) : f.path = path

\* The common paths of the run, with differing and with identical contents.
commonPaths == PathsOf(run.workspaceAFiles) \cap PathsOf(run.workspaceBFiles)

differing ==
  {p \in commonPaths :
     fileOf(run.workspaceAFiles, p).content # fileOf(run.workspaceBFiles, p).content}

identical ==
  {p \in commonPaths :
     fileOf(run.workspaceAFiles, p).content = fileOf(run.workspaceBFiles, p).content}

mergedAt(path) == {i \in DOMAIN run.mergedFiles : run.mergedFiles[i].path = path}
conflictsAt(path) == {i \in DOMAIN run.conflicts : run.conflicts[i].filePath = path}

\* C8: when the fusion call, or the parsing of its answer, throws for a
\* differing common pair, the MergedFile of the path is workspace A's path,
\* type and content with no changes.
C8_FusionFallsBackToA ==
  AfterMerge =>
    \A p \in differing :
      Throws(run.fusion[p]) =>
        \A i \in mergedAt(p) :
          LET fileA == fileOf(run.workspaceAFiles, p)
          IN /\ run.mergedFiles[i].path = fileA.path
             /\ run.mergedFiles[i].type = fileA.type
             /\ run.mergedFiles[i].content = fileA.content
             /\ run.mergedFiles[i].content # fileOf(run.workspaceBFiles, p).content
             /\ run.mergedFiles[i].changes = JsArray(<< >>)

\* C8 witness: the fusion call of a differing pair failed, and its file is merged.
C8_Witness ==
  /\ AfterMerge
  /\ \E p \in differing : Throws(run.fusion[p]) /\ mergedAt(p) # {}

\* C9: when the analysis call, or the parsing of its answer, fails for a
\* differing common pair, no conflict is recorded for the path, detectConflicts
\* returns, and every other differing pair is still analysed: it is called for,
\* and its conflict is recorded when the verdict reports one.
C9_AnalysisFailsOpen ==
  AfterDetect =>
    \A p \in differing :
      Throws(run.analysis[p]) =>
        /\ conflictsAt(p) = {}
        /\ \A q \in differing :
             /\ q \in Range(run.analyzerCalls)
             /\ (~Throws(run.analysis[q]) /\ Truthy(run.analysis[q].hasConflict))
                  => Cardinality(conflictsAt(q)) = 1

\* C9 witness: the analysis of the first differing pair failed and the second
\* pair's conflict is recorded.
C9_Witness ==
  /\ AfterDetect
  /\ Len(run.analyzerCalls) = 2
  /\ Throws(run.analysis[run.analyzerCalls[1]])
  /\ conflictsAt(run.analyzerCalls[2]) # {}

\* C10: for a common pair with identical contents neither loop calls the
\* provider, no conflict is recorded, and the one MergedFile of the path has
\* the shared content and no changes.
C10_IdenticalPairsUntouched ==
  AfterMerge =>
    \A p \in identical :
      /\ p \notin Range(run.analyzerCalls)
      /\ p \notin Range(run.fuserCalls)
      /\ conflictsAt(p) = {}
      /\ Cardinality(mergedAt(p)) = 1
      /\ \A i \in mergedAt(p) :
           /\ run.mergedFiles[i].content = fileOf(run.workspaceAFiles, p).content
           /\ run.mergedFiles[i].content = fileOf(run.workspaceBFiles, p).content
           /\ run.mergedFiles[i].changes = JsArray(<< >>)

\* C10 witness: a run with an identical pair beside a differing pair whose
\* calls were made.
C10_Witness ==
  /\ AfterMerge
  /\ identical # {}
  /\ Len(run.fuserCalls) = 1
  /\ Len(run.analyzerCalls) = 1

\* The classification of the run's two file lists.
classification == analyzeFileStructures(run.workspaceAFiles, run.workspaceBFiles)

allPaths == PathsOf(run.workspaceAFiles) \cup PathsOf(run.workspaceBFiles)
onlyA == PathsOf(run.workspaceAFiles) \ PathsOf(run.workspaceBFiles)
onlyB == PathsOf(run.workspaceBFiles) \ PathsOf(run.workspaceAFiles)

\* C11: the three partitions of the classification have pairwise disjoint path
\* sets whose union is the union of both sides' paths, no partition holds a
\* path twice, and the common partition holds exactly the paths present on
\* both sides, whether or not the contents are equal.
C11_ClassificationPartitions ==
  AfterDetect =>
    LET a == PathsOf(classification.uniqueToA)
        b == PathsOf(classification.uniqueToB)
        c == PathsOf(classification.commonFiles)
    IN /\ a \cap b = {} /\ a \cap c = {} /\ b \cap c = {}
       /\ a \cup b \cup c = allPaths
       /\ c = commonPaths
       /\ a = onlyA
       /\ b = onlyB
       /\ Len(classification.uniqueToA) = Cardinality(a)
       /\ Len(classification.uniqueToB) = Cardinality(b)
       /\ Len(classification.commonFiles) = Cardinality(c)

\* C11 witness: a classified run with a file on each side only and a common
\* path whose two contents differ.
C11_Witness ==
  /\ AfterDetect
  /\ classification.uniqueToA # << >>
  /\ classification.uniqueToB # << >>
  /\ classification.commonFiles # << >>
  /\ differing # {}

\* C12: after performAIMerge the merged files hold exactly one MergedFile for
\* every path of the union of both sides and nothing else, whatever the
\* provider answered.
C12_OneMergedFilePerPath ==
  AfterMerge =>
    /\ \A p \in allPaths : Cardinality(mergedAt(p)) = 1
    /\ \A i \in DOMAIN run.mergedFiles : run.mergedFiles[i].path \in allPaths

\* C12 witness: three paths merged, one of them common with a failed fusion call.
C12_Witness ==
  /\ AfterMerge
  /\ Cardinality(allPaths) = 3
  /\ Len(run.mergedFiles) = 3
  /\ \E p \in differing : Throws(run.fusion[p])

\* C13: a file present on one side only is merged with its content and type
\* unchanged and the single change {added, line 1, its content, its own side},
\* and neither loop calls the provider for it.
C13_UniqueFilesAdded ==
  AfterMerge =>
    /\ \A p \in onlyA :
         LET file == fileOf(run.workspaceAFiles, p)
         IN /\ \E i \in mergedAt(p) :
                 run.mergedFiles[i] =
                   [path |-> p, content |-> file.content, type |-> file.type,
                    changes |-> JsArray(<<[type |-> "added", lineNumber |-> 1,
                                           content |-> file.content,
                                           source |-> "workspace_a"]>>)]
            /\ Cardinality(mergedAt(p)) = 1
            /\ p \notin Range(run.analyzerCalls) \cup Range(run.fuserCalls)
    /\ \A p \in onlyB :
         LET file == fileOf(run.workspaceBFiles, p)
         IN /\ \E i \in mergedAt(p) :
                 run.mergedFiles[i] =
                   [path |-> p, content |-> file.content, type |-> file.type,
                    changes |-> JsArray(<<[type |-> "added", lineNumber |-> 1,
                                           content |-> file.content,
                                           source |-> "workspace_b"]>>)]
            /\ Cardinality(mergedAt(p)) = 1
            /\ p \notin Range(run.analyzerCalls) \cup Range(run.fuserCalls)

\* C13 witness: a file on each side only, merged beside a common pair for
\* which the provider was called.
C13_Witness ==
  /\ AfterMerge
  /\ onlyA # {}
  /\ onlyB # {}
  /\ Len(run.fuserCalls) = 1

\* The provider answered the analysis of a differing pair with a verdict whose
\* hasConflict is true.
reportsConflict(path) ==
  /\ path \in differing
  /\ ~Throws(run.analysis[path])
  /\ run.analysis[path].hasConflict = JsBoolean(TRUE)

\* C14: after detectConflicts a path has a conflict entry if and only if it is
\* common, its two contents differ and the verdict for it reports hasConflict
\* true; and no path has more than one entry.
C14_ConflictIffReported ==
  AfterDetect =>
    /\ \A p \in Paths : (conflictsAt(p) # {}) <=> reportsConflict(p)
    /\ \A p \in Paths : Cardinality(conflictsAt(p)) <= 1
    /\ \A i \in DOMAIN run.conflicts : run.conflicts[i].filePath \in Paths

\* The previews of the "use A" and "use B" options of the emitted conflicts,
\* each with the content it previews.
versionPreviews ==
  {[preview |-> run.conflicts[i].options[1].preview,
    content |-> fileOf(run.workspaceAFiles, run.conflicts[i].filePath).content] :
       i \in DOMAIN run.conflicts}
  \cup
  {[preview |-> run.conflicts[i].options[2].preview,
    content |-> fileOf(run.workspaceBFiles, run.conflicts[i].filePath).content] :
       i \in DOMAIN run.conflicts}

\* C15, as claimed: the preview of the "use A" and of the "use B" option of
\* every emitted conflict is at most 200 characters long.
C15_PreviewAtMost200 ==
  AfterDetect => \A v \in versionPreviews : Len(v.preview) <= PreviewLength

\* C15, amended: the preview of the "use A" and of the "use B" option is the
\* first 200 characters of the content (all of it when it is shorter) followed
\* by "...", so it is at most 203 characters long.
C15_PreviewAtMost203 ==
  AfterDetect =>
    \A v \in versionPreviews :
      LET kept == IF Len(v.content) < PreviewLength THEN Len(v.content) ELSE PreviewLength
      IN /\ v.preview = SubSeq(v.content, 1, kept) \o "..."
         /\ Len(v.preview) <= PreviewLength + 3

\* C15 witness: a conflict over a content longer than 200 characters, whose
\* preview is 203 characters long.
C15_Witness ==
  /\ AfterDetect
  /\ \E v \in versionPreviews :
       /\ Len(v.content) > PreviewLength
       /\ Len(v.preview) = PreviewLength + 3

\* C16: every emitted conflict has a kind among naming, content and
\* dependency, whatever kind the verdict carried.
C16_ConflictKind ==
  AfterDetect =>
    \A i \in DOMAIN run.conflicts :
      run.conflicts[i].type \in {"naming", "content", "dependency"}

\* C17: every emitted conflict carries exactly three options, in the order
\* use A, use B, AI-recommended merge.
C17_ThreeOptionsInOrder ==
  AfterDetect =>
    \A i \in DOMAIN run.conflicts :
      /\ Len(run.conflicts[i].options) = 3
      /\ run.conflicts[i].options[1].id = "use_a"
      /\ run.conflicts[i].options[1].description = "Use Version A"
      /\ run.conflicts[i].options[2].id = "use_b"
      /\ run.conflicts[i].options[2].description = "Use Version B"
      /\ run.conflicts[i].options[3].id = "ai_merge"
      /\ run.conflicts[i].options[3].description = "AI Recommended Merge"
      /\ run.conflicts[i].options[3].preview = run.conflicts[i].recommendation

\* C17 witness: two conflicts emitted in one run.
C17_Witness ==
  /\ AfterDetect
  /\ Len(run.conflicts) = 2

\* How many times a path occurs in a sequence of calls.
callsFor(calls, path) == Cardinality({i \in DOMAIN calls : calls[i] = path})

\* C18: over one merge the analyzer and the fuser each call the provider
\* exactly once for every common pair whose contents differ and for no other
\* file, so 2 * (number of differing pairs) calls are made, whichever fail.
C18_CallsPerDifferingPair ==
  AfterMerge =>
    /\ \A p \in differing :
         /\ callsFor(run.analyzerCalls, p) = 1
         /\ callsFor(run.fuserCalls, p) = 1
    /\ Range(run.analyzerCalls) \subseteq differing
    /\ Range(run.fuserCalls) \subseteq differing
    /\ Len(run.analyzerCalls) + Len(run.fuserCalls) = 2 * Cardinality(differing)

\* C18 witness: two differing pairs; an analysis call and a fusion call failed,
\* and four calls were made.
C18_Witness ==
  /\ AfterMerge
  /\ Cardinality(differing) = 2
  /\ \E p \in differing : Throws(run.analysis[p])
  /\ \E p \in differing : Throws(run.fusion[p])
  /\ Len(run.analyzerCalls) + Len(run.fuserCalls) = 4

\* The position of a path in workspace A's list.
indexInA(path) ==
  CHOOSE i \in DOMAIN run.workspaceAFiles : run.workspaceAFiles[i].path = path

\* C19: the conflicts, and the merged files of the common paths, come in the
\* order of workspace A's list (the order of the common collection), whatever
\* the provider answered to each call.
C19_ResultsInInputOrder ==
  AfterMerge =>
    /\ \A i, j \in DOMAIN run.conflicts :
         i < j => indexInA(run.conflicts[i].filePath) < indexInA(run.conflicts[j].filePath)
    /\ \A i, j \in DOMAIN run.mergedFiles :
         (/\ i < j
          /\ run.mergedFiles[i].path \in commonPaths
          /\ run.mergedFiles[j].path \in commonPaths)
           => indexInA(run.mergedFiles[i].path) < indexInA(run.mergedFiles[j].path)

\* C19 witness: two common paths listed in opposite orders by the two sides,
\* both reported as conflicts, the fusion of the first failing and that of
\* the second succeeding.
C19_Witness ==
  /\ AfterMerge
  /\ Len(run.conflicts) = 2
  /\ Len(run.workspaceBFiles) = 2
  /\ run.workspaceBFiles[1].path = run.conflicts[2].filePath
  /\ Throws(run.fusion[run.conflicts[1].filePath])
  /\ ~Throws(run.fusion[run.conflicts[2].filePath])

\* C20: the summary's totalFiles is the number of distinct paths of the two
\* sides: the paths on one side only, plus the common paths counted once
\* each, with equal or with differing contents.
C20_TotalFilesCountsPaths ==
  run.pc = "returned" =>
    /\ run.outcome.summary.totalFiles =
         Cardinality(onlyA) + Cardinality(onlyB)
           + Cardinality(differing) + Cardinality(identical)
    /\ run.outcome.summary.totalFiles =
         Len(run.workspaceAFiles) + Len(run.workspaceBFiles) - Cardinality(commonPaths)

\* C20 witness: a returned merge of two sides sharing one path with equal
\* contents and one with differing contents: two files in total.
C20_Witness ==
  /\ run.pc = "returned"
  /\ identical # {}
  /\ differing # {}
  /\ run.outcome.summary.totalFiles = 2

\* The changes of kind added of the merged files: <<file, change>> positions.
addedChanges ==
  UNION {{<<i, k>> : k \in {n \in DOMAIN run.mergedFiles[i].changes.v :
                              run.mergedFiles[i].changes.v[n].type = "added"}} :
           i \in DOMAIN run.mergedFiles}

\* C21: the summary's linesAdded is the number of changes of kind added over
\* all merged files of the result: one for every file present on one side
\* only, plus the added changes the provider reported for the fused files.
C21_LinesAddedCountsChanges ==
  run.pc = "returned" =>
    /\ run.outcome.summary.linesAdded = Cardinality(addedChanges)
    /\ Cardinality({c \in addedChanges : run.mergedFiles[c[1]].path \notin commonPaths})
         = Cardinality(onlyA) + Cardinality(onlyB)

\* C21 witness: a returned merge of a one-sided file whose content has two
\* lines and a fused pair for which the provider reported one added change:
\* linesAdded is 2.
C21_Witness ==
  /\ run.pc = "returned"
  /\ \E p \in onlyA : fileOf(run.workspaceAFiles, p).content = LongContent
  /\ \E p \in differing : ~Throws(run.fusion[p]) /\ run.fusion[p].changes = ProviderChanges
  /\ run.outcome.summary.linesAdded = 2

\* C27: when the provider's parsed answer for a differing pair has a missing
\* or empty mergedContent, so that the merged file has workspace A's content,
\* the merged file's change list is empty.
C27_SideAContentHasNoChanges ==
  AfterMerge =>
    \A p \in differing :
      (~Throws(run.fusion[p]) /\ ~TruthyString(run.fusion[p].mergedContent)) =>
        \A i \in mergedAt(p) :
          /\ run.mergedFiles[i].content = fileOf(run.workspaceAFiles, p).content
          /\ run.mergedFiles[i].changes = JsArray(<< >>)

\* C30: the summary of a returned merge has mergedFiles equal to totalFiles,
\* and conflictsResolved at most the number of common paths whose contents differ.
C30_SummaryRelations ==
  run.pc = "returned" =>
    /\ run.outcome.summary.mergedFiles = run.outcome.summary.totalFiles
    /\ run.outcome.summary.conflictsResolved <= Cardinality(differing)
    /\ run.outcome.summary.conflictsResolved = Len(run.outcome.conflicts)
    /\ run.outcome.summary.mergedFiles = Len(run.outcome.mergedFiles)

\* C30 witness: a returned merge with an identical pair, which carries no
\* change, and a differing pair reported as a conflict.
C30_Witness ==
  /\ run.pc = "returned"
  /\ identical # {}
  /\ run.outcome.summary.conflictsResolved = 1
  /\ run.outcome.summary.mergedFiles = 2

\* The background merges of a job that have started and not ended.
runningTasks(id) == {t \in tasksOf(id) : tasks[t].pc # "done"}

\* C22: while a merge request is about to schedule the background work of a
\* job, and while that work (fetch, file storage, orchestration) is under way,
\* the stored job is not pending: processing was written before.
C22_ProcessingBeforeBackgroundWork ==
  /\ \A t \in DOMAIN tasks :
       tasks[t].pc # "done" =>
         mergeJobs[tasks[t].job.id].status \in {"processing", "completed", "failed"}
  /\ \A r \in DOMAIN requests :
       requests[r].pc = "spawn" =>
         mergeJobs[requests[r].id].status \in {"processing", "completed", "failed"}

\* C22 witness: a background merge is storing files for a job recorded as processing.
C22_Witness ==
  \E t \in DOMAIN tasks :
    /\ tasks[t].pc = "store"
    /\ tasks[t].pending # << >>
    /\ mergeJobs[tasks[t].job.id].status = "processing"

\* C23: a completed or failed job has its completion timestamp set, and a
\* pending or processing job has it unset.
C23_CompletedAtFollowsStatus ==
  \A id \in DOMAIN mergeJobs :
    /\ Terminal(mergeJobs[id].status) => mergeJobs[id].completedAt # NullDate
    /\ mergeJobs[id].status \in {"pending", "processing"} =>
         mergeJobs[id].completedAt = NullDate

\* Whether a string begins with a prefix.
startsWith(s, prefix) ==
  Len(s) >= Len(prefix) /\ SubSeq(s, 1, Len(prefix)) = prefix

\* C24: the errorMessage of every failed job is the orchestrator's wrapped
\* merge-failed error; no parsing or fetch error is recorded on a job.
C24_OnlyWrappedError ==
  \A id \in DOMAIN mergeJobs :
    mergeJobs[id].status = "failed" =>
      startsWith(mergeJobs[id].errorMessage, wrapError(""))

\* C25: no job with a malformed source identifier exists.
C25_NoMalformedJob ==
  \A id \in DOMAIN mergeJobs :
    /\ ~parseGitHubUrlThrows(mergeJobs[id].workspaceAUrl)
    /\ ~parseGitHubUrlThrows(mergeJobs[id].workspaceBUrl)

\* The jobs a step acts for: the job of every preview load, merge request and
\* background merge that the step starts or moves, the job it creates and the
\* job whose creation it answers.
actingJobs ==
  {creating[c].id : c \in {q \in DOMAIN creating : \A d \in DOMAIN creating' : creating'[d] # creating[q]}}
  \cup {previews[p].job.id : p \in {q \in DOMAIN previews : previews'[q] # previews[q]}}
  \cup {requests[r].id : r \in {q \in DOMAIN requests : requests'[q] # requests[q]}}
  \cup {tasks[t].job.id : t \in {q \in DOMAIN tasks : tasks'[q] # tasks[q]}}
  \cup {requests'[r].id : r \in (DOMAIN requests') \ DOMAIN requests}
  \cup {tasks'[t].job.id : t \in (DOMAIN tasks') \ DOMAIN tasks}
  \cup ((DOMAIN mergeJobs') \ DOMAIN mergeJobs)

\* C26: every step acts for one job at most, and leaves the record and the
\* stored workspace files of every other job as they were.
C26_JobsAreIndependent ==
  [][/\ Cardinality(actingJobs) <= 1
     /\ \A id \in DOMAIN mergeJobs :
          (\/ mergeJobs'[id] # mergeJobs[id]
           \/ getWorkspaceFilesByJobId(id)' # getWorkspaceFilesByJobId(id))
            => id \in actingJobs]_vars

\* C26 witness: the background merge of job 1 has deleted the job's stored
\* files and is storing them again while job 2, completed, has its files stored.
C26_Witness ==
  /\ \E t \in DOMAIN tasks :
       /\ tasks[t].job.id = 1
       /\ tasks[t].pc = "store"
       /\ getWorkspaceFilesByJobId(1) = EmptyBag
  /\ 2 \in DOMAIN mergeJobs
  /\ mergeJobs[2].status = "completed"
  /\ getWorkspaceFilesByJobId(2) # EmptyBag

\* C28: a job recorded as processing has background work that will record
\* completed or failed on it: a merge request about to schedule the merge, or
\* a background merge that has not ended.  (Every step of that work returns or
\* throws, and its last step writes completed or failed; a processing job
\* without such work is never written again, every merge request for it being
\* answered 400.)
C28_ProcessingIsBeingWorkedOn ==
  \A id \in DOMAIN mergeJobs :
    mergeJobs[id].status = "processing" =>
      \/ runningTasks(id) # {}
      \/ \E r \in DOMAIN requests : requests[r].pc = "spawn" /\ requests[r].id = id

\* The workspace-file records the merge of a job stores, one of each.
mergedRecords(job) ==
  LET records == recordsToStore(job, RepositoryFiles(job.workspaceAUrl),
                                RepositoryFiles(job.workspaceBUrl))
  IN [f \in Range(records) |-> 1]

\* C29: once the background merge of a job has ended with the job completed,
\* the store holds, for that job, exactly one record for each file the merge
\* fetched, on each side.
C29_OneRecordPerFetchedFile ==
  \A t \in DOMAIN tasks :
    (tasks[t].pc = "done" /\ mergeJobs[tasks[t].job.id].status = "completed") =>
      getWorkspaceFilesByJobId(tasks[t].job.id) = mergedRecords(tasks[t].job)

====
